---- MODULE Spec2Model ----
(***************************************************************************)
(* Car-Ai-Estimator backend: the numeric extractor, the shape normalizer,  *)
(* the decode-repair step of the Gemini client, and the /analyze and       *)
(* /history endpoints over the blob directory and the analysis table.      *)
(*                                                                         *)
(* JSON values are tagged records:                                         *)
(*   [t |-> "null"], [t |-> "bool", v], [t |-> "int", v], [t |-> "bigint"],*)
(*   [t |-> "float", v], [t |-> "str", v], [t |-> "list", v],              *)
(*   [t |-> "dict", v].                                                    *)
(* A str carries a sequence of one-character strings; a dict carries a     *)
(* function from such sequences (its keys) to values; a float carries its  *)
(* value in units of 1/Scale (exact, no IEEE rounding); a bigint is an     *)
(* integer beyond the largest finite double.                               *)
(***************************************************************************)
EXTENDS Integers, Sequences, FiniteSets, TLC

VARIABLES
    arg,        \* pure-function specifications: the input value
    ret,        \* pure-function specifications: the outcome, NotRun before the call
    pc,         \* analyze: each request's position in the handler
    uname,      \* analyze: each request's unique_name, NoName before it is drawn
    normalized, \* analyze: each request's normalized dict, None before it exists
    entry,      \* analyze: each request's Analysis row being written
    resp,       \* analyze: each request's response, NoResp until it returns
    failedAt,   \* analyze: the step at which the request raised, "" if none
    blobs,      \* files of UPLOAD_DIR: unique_name -> request that wrote it
    rows,       \* the analysis table (a set of rows)
    now,        \* the wall clock that datetime.utcnow reads
    hist        \* the body of the last /history response

vars == <<arg, ret, pc, uname, normalized, entry, resp, failedAt,
          blobs, rows, now, hist>>

pureVars == <<arg, ret>>
webVars == <<pc, uname, normalized, entry, resp, failedAt,
             blobs, rows, now, hist>>

-----------------------------------------------------------------------------
(* Bounds *)

\* longest string of the exhaustive string inputs of the numeric extractor
MaxStrLen == 4
\* largest magnitude of an integer input
MaxInt == 5
\* longest damages list
MaxDamages == 2
\* longest model text of the exhaustive decode inputs
MaxTextLen == 4
\* concurrent /analyze requests
NumRequests == 2

\* floats are kept in units of 1/Scale: every mean of two decimals with at
\* most 3 fractional digits is a whole number of units
Scale == 2 * 1000

-----------------------------------------------------------------------------
(* JSON / Python values *)

None == [t |-> "null"]
MkBool(b) == [t |-> "bool", v |-> b]
MkInt(n) == [t |-> "int", v |-> n]
BigInt == [t |-> "bigint"]
MkFloat(u) == [t |-> "float", v |-> u]
MkStr(s) == [t |-> "str", v |-> s]
MkList(l) == [t |-> "list", v |-> l]
MkDict(d) == [t |-> "dict", v |-> d]
EmptyDict == MkDict(<<>>)

\* the character sequence of a string literal of the code
Chars(k) ==
    CASE k = "damages" -> <<"d", "a", "m", "a", "g", "e", "s">>
      [] k = "damage" -> <<"d", "a", "m", "a", "g", "e">>
      [] k = "part" -> <<"p", "a", "r", "t">>
      [] k = "damage_type" -> <<"d", "a", "m", "a", "g", "e", "_", "t", "y", "p", "e">>
      [] k = "location" -> <<"l", "o", "c", "a", "t", "i", "o", "n">>
      [] k = "estimated_cost" -> <<"e", "s", "t", "i", "m", "a", "t", "e", "d", "_", "c", "o", "s", "t">>
      [] k = "estimatedCosts" -> <<"e", "s", "t", "i", "m", "a", "t", "e", "d", "C", "o", "s", "t", "s">>
      [] k = "usd" -> <<"u", "s", "d">>
      [] k = "USD" -> <<"U", "S", "D">>
      [] k = "dollars" -> <<"d", "o", "l", "l", "a", "r", "s">>
      [] k = "inr" -> <<"i", "n", "r">>
      [] k = "INR" -> <<"I", "N", "R">>
      [] k = "jpy" -> <<"j", "p", "y">>
      [] k = "JPY" -> <<"J", "P", "Y">>
      [] k = "yen" -> <<"y", "e", "n">>
      [] k = "cost_usd" -> <<"c", "o", "s", "t", "_", "u", "s", "d">>
      [] k = "costUSD" -> <<"c", "o", "s", "t", "U", "S", "D">>
      [] k = "cost_inr" -> <<"c", "o", "s", "t", "_", "i", "n", "r">>
      [] k = "costINR" -> <<"c", "o", "s", "t", "I", "N", "R">>
      [] k = "cost_yen" -> <<"c", "o", "s", "t", "_", "y", "e", "n">>
      [] k = "costJPY" -> <<"c", "o", "s", "t", "J", "P", "Y">>
      [] k = "notes" -> <<"n", "o", "t", "e", "s">>
      [] k = "note" -> <<"n", "o", "t", "e">>
      [] k = "raw_output" -> <<"r", "a", "w", "_", "o", "u", "t", "p", "u", "t">>
      [] k = "uploadedImage" -> <<"u", "p", "l", "o", "a", "d", "e", "d", "I", "m", "a", "g", "e">>
      [] k = "error" -> <<"e", "r", "r", "o", "r">>
      [] k = "Unknown" -> <<"U", "n", "k", "n", "o", "w", "n">>
      [] k = "None" -> <<"N", "o", "n", "e">>
      [] k = "True" -> <<"T", "r", "u", "e">>
      [] k = "False" -> <<"F", "a", "l", "s", "e">>
      [] k = ", " -> <<",", " ">>
      [] k = " (" -> <<" ", "(">>
      [] k = ")" -> <<")">>
      [] k = "/uploads/" -> <<"/", "u", "p", "l", "o", "a", "d", "s", "/">>
      [] k = ".png" -> <<".", "p", "n", "g">>
      [] k = ".jpg" -> <<".", "j", "p", "g">>

Digits == <<"0", "1", "2", "3", "4", "5", "6", "7", "8", "9">>
IsDigit(c) == \E i \in 1..10 : Digits[i] = c
DigitVal(c) == (CHOOSE i \in 1..10 : Digits[i] = c) - 1

RECURSIVE Pow10(_)
Pow10(n) == IF n = 0 THEN 1 ELSE 10 * Pow10(n - 1)

\* Python truth value (bool(x)): None, False, 0, "", [], {} are false
Truthy(x) ==
    CASE x.t = "null" -> FALSE
      [] x.t = "bool" -> x.v
      [] x.t = "int" -> x.v # 0
      [] x.t = "bigint" -> TRUE
      [] x.t = "float" -> x.v # 0
      [] x.t = "str" -> Len(x.v) > 0
      [] x.t = "list" -> Len(x.v) > 0
      [] x.t = "dict" -> DOMAIN x.v # {}

\* Python `a or b`
Or(a, b) == IF Truthy(a) THEN a ELSE b

\* dict.get(k): None when the key is absent
Get(d, k) == IF Chars(k) \in DOMAIN d.v THEN d.v[Chars(k)] ELSE None

RECURSIVE NatStr(_)
NatStr(n) == IF n < 10 THEN <<Digits[n + 1]>>
             ELSE NatStr(n \div 10) \o <<Digits[(n % 10) + 1]>>

IntStr(n) == IF n < 0 THEN <<"-">> \o NatStr(-n) ELSE NatStr(n)

\* an order on dictionary keys, for printing a dict's items
RECURSIVE SetToSeq(_)
SetToSeq(S) == IF S = {} THEN <<>>
               ELSE LET k == CHOOSE k \in S : TRUE
                    IN <<k>> \o SetToSeq(S \ {k})

\* str(x) and repr(x): a str prints as itself under str and quoted under repr
RECURSIVE PyText(_, _)
RECURSIVE JoinRepr(_, _)
RECURSIVE ItemsRepr(_, _)
PyText(x, quoted) ==
    CASE x.t = "null" -> Chars("None")
      [] x.t = "bool" -> IF x.v THEN Chars("True") ELSE Chars("False")
      [] x.t = "int" -> IntStr(x.v)
      [] x.t = "bigint" -> <<"#">>  \* its digit run (309 digits or more), kept whole
      [] x.t = "str" -> IF quoted THEN <<"'">> \o x.v \o <<"'">> ELSE x.v
      [] x.t = "list" -> <<"[">> \o JoinRepr(x.v, 1) \o <<"]">>
      [] x.t = "dict" -> <<"{">> \o ItemsRepr(x.v, SetToSeq(DOMAIN x.v)) \o <<"}">>
JoinRepr(l, i) ==
    IF i > Len(l) THEN <<>>
    ELSE PyText(l[i], TRUE) \o (IF i < Len(l) THEN Chars(", ") ELSE <<>>) \o JoinRepr(l, i + 1)
ItemsRepr(d, ks) ==
    IF ks = <<>> THEN <<>>
    ELSE <<"'">> \o Head(ks) \o <<"'", ":", " ">> \o PyText(d[Head(ks)], TRUE)
         \o (IF Len(ks) > 1 THEN Chars(", ") ELSE <<>>) \o ItemsRepr(d, Tail(ks))

PyStr(x) == PyText(x, FALSE)

-----------------------------------------------------------------------------
(* Numeric extractor: _parse_number_from_string *)

\* outcomes of a call: a returned value, or an exception leaving the function
Returned(x) == [exc |-> "", val |-> x]
Raised(e) == [exc |-> e]
NotRun == [exc |-> "not run"]
HasReturned(r) == r.exc = ""
HasRaised(r) == r.exc \notin {"", "not run"}

\* s.replace(",", "")
RECURSIVE RemoveCommas(_)
RemoveCommas(s) ==
    IF s = <<>> THEN <<>>
    ELSE (IF Head(s) = "," THEN <<>> ELSE <<Head(s)>>) \o RemoveCommas(Tail(s))

\* end of the maximal digit run starting at i (i - 1 when s[i] is no digit)
RECURSIVE RunEnd(_, _)
RunEnd(s, i) == IF i <= Len(s) /\ IsDigit(s[i]) THEN RunEnd(s, i + 1) ELSE i - 1

\* re.findall(r"\d+(?:\.\d+)?", s): the matches, left to right, as
\* [ip, fp]: the digits before and after the decimal point
RECURSIVE FindAllFrom(_, _)
FindAllFrom(s, i) ==
    IF i > Len(s) THEN <<>>
    ELSE IF ~IsDigit(s[i]) THEN FindAllFrom(s, i + 1)
    ELSE LET j == RunEnd(s, i)
             k == IF j + 2 <= Len(s) /\ s[j + 1] = "." /\ IsDigit(s[j + 2])
                  THEN RunEnd(s, j + 2) ELSE j
             m == [ip |-> SubSeq(s, i, j),
                   fp |-> IF k > j THEN SubSeq(s, j + 2, k) ELSE <<>>]
         IN <<m>> \o FindAllFrom(s, k + 1)

FindAll(s) == FindAllFrom(s, 1)

RECURSIVE DigitsVal(_)
DigitsVal(ds) == IF ds = <<>> THEN 0
                 ELSE 10 * DigitsVal(SubSeq(ds, 1, Len(ds) - 1)) + DigitVal(ds[Len(ds)])

\* float(n) of a match, in units of 1/Scale
MatchFloat(m) == DigitsVal(m.ip) * Scale + (DigitsVal(m.fp) * Scale) \div Pow10(Len(m.fp))

Abs(n) == IF n < 0 THEN -n ELSE n

\* float(s) of a bool or an int; an int beyond the double range raises
FloatOfNumber(s) ==
    CASE s.t = "bool" -> Returned(MkFloat(IF s.v THEN Scale ELSE 0))
      [] s.t = "int" -> Returned(MkFloat(s.v * Scale))
      [] s.t = "float" -> Returned(s)
      [] s.t = "bigint" -> Raised("OverflowError")

IsNumber(s) == s.t \in {"bool", "int", "float", "bigint"}

\* the value returned for the list of matches
FromMatches(nums) ==
    IF nums = <<>> THEN MkFloat(0)
    ELSE IF Len(nums) >= 2
         THEN MkFloat((MatchFloat(nums[1]) + MatchFloat(nums[2])) \div 2)
         ELSE MkFloat(MatchFloat(nums[1]))

parse_number_from_string(s) ==
    IF s.t = "null" THEN Returned(MkFloat(0))
    ELSE IF IsNumber(s)
         THEN LET f == FloatOfNumber(s)
              IN IF HasRaised(f) THEN f ELSE Returned(MkFloat(Abs(f.val.v)))
         ELSE Returned(FromMatches(FindAll(RemoveCommas(PyStr(s)))))

-----------------------------------------------------------------------------
(* Shape normalizer: _normalize_analysis *)

Lit(k) == MkStr(Chars(k))

\* the record returned for a raw value that is not a dict
Degenerate(raw) ==
    MkDict((Chars("damage_type") :> Lit("Unknown")) @@ (Chars("location") :> MkStr(<<>>))
           @@ (Chars("cost_inr") :> MkFloat(0)) @@ (Chars("cost_usd") :> MkFloat(0))
           @@ (Chars("cost_yen") :> MkFloat(0)) @@ (Chars("notes") :> MkStr(PyStr(raw))))

\* damages = raw.get("damages") or raw.get("damage") or []
DamagesOf(raw) == Or(Or(Get(raw, "damages"), Get(raw, "damage")), MkList(<<>>))

\* one pass of the loop over damages: acc.dt is damage_types, acc.loc is locations
EntryStep(acc, d) ==
    LET part == IF d.t = "dict" THEN Get(d, "part") ELSE None
        dtype == IF d.t = "dict" THEN Get(d, "damage_type") ELSE None
    IN IF Truthy(dtype) /\ Truthy(part)
       THEN [dt |-> Append(acc.dt, MkStr(PyStr(dtype) \o Chars(" (") \o PyStr(part) \o Chars(")"))),
             loc |-> Append(acc.loc, part)]
       ELSE IF Truthy(dtype) THEN [dt |-> Append(acc.dt, dtype), loc |-> acc.loc]
       ELSE IF Truthy(part) THEN [dt |-> acc.dt, loc |-> Append(acc.loc, part)]
       ELSE acc

RECURSIVE EntryLoop(_, _, _)
EntryLoop(acc, ds, i) ==
    IF i > Len(ds) THEN acc ELSE EntryLoop(EntryStep(acc, ds[i]), ds, i + 1)

\* the fallback branch: simple top-level fields
SimpleFields(raw) ==
    LET dtype_field == Or(Get(raw, "damage_type"), Get(raw, "damage"))
        loc == Or(Get(raw, "location"), Get(raw, "part"))
    IN [dt |-> IF Truthy(dtype_field)
               THEN (IF dtype_field.t = "list" THEN dtype_field.v
                     ELSE <<MkStr(PyStr(dtype_field))>>)
               ELSE <<>>,
        loc |-> IF Truthy(loc)
                THEN (IF loc.t = "list" THEN loc.v ELSE <<MkStr(PyStr(loc))>>)
                ELSE <<>>]

\* damage_types and locations as collected by either branch
Collected(raw) ==
    LET damages == DamagesOf(raw)
    IN IF damages.t = "list" /\ Len(damages.v) > 0
       THEN EntryLoop([dt |-> <<>>, loc |-> <<>>], damages.v, 1)
       ELSE SimpleFields(raw)

\* a one-element list is replaced by its element
Collapse(x) == IF x.t = "list" /\ Len(x.v) = 1 THEN x.v[1] ELSE x

DamageTypeOut(raw, damage_types) ==
    Collapse(IF damage_types # <<>> THEN MkList(damage_types)
             ELSE Or(Get(raw, "damage_type"), Lit("Unknown")))

RECURSIVE JoinChars(_, _, _)
JoinChars(sep, items, i) ==
    IF i > Len(items) THEN <<>>
    ELSE items[i].v \o (IF i < Len(items) THEN sep ELSE <<>>) \o JoinChars(sep, items, i + 1)

\* sep.join(items): TypeError unless every item is a str
Join(sep, items) ==
    IF \E i \in 1..Len(items) : items[i].t # "str" THEN Raised("TypeError")
    ELSE Returned(MkStr(JoinChars(sep, items, 1)))

LocationOut(raw, locations) ==
    IF locations # <<>> THEN Join(Chars(", "), locations)
    ELSE Returned(Or(Get(raw, "location"), MkStr(<<>>)))

Or3(a, b, c) == Or(Or(a, b), c)

\* est = raw.get("estimated_cost") or raw.get("estimatedCosts") or {}
EstOf(raw) == Or3(Get(raw, "estimated_cost"), Get(raw, "estimatedCosts"), EmptyDict)

\* usd_raw, inr_raw, jpy_raw
CostRaws(raw) ==
    LET est == EstOf(raw)
    IN IF est.t = "dict"
       THEN [usd |-> Or3(Get(est, "usd"), Get(est, "USD"), Get(est, "dollars")),
             inr |-> Or(Get(est, "inr"), Get(est, "INR")),
             jpy |-> Or3(Get(est, "jpy"), Get(est, "JPY"), Get(est, "yen"))]
       ELSE [usd |-> Or3(Get(raw, "cost_usd"), Get(raw, "costUSD"), Get(raw, "usd")),
             inr |-> Or3(Get(raw, "cost_inr"), Get(raw, "costINR"), Get(raw, "inr")),
             jpy |-> Or3(Get(raw, "cost_yen"), Get(raw, "costJPY"), Get(raw, "jpy"))]

NotesOf(raw) ==
    Or(Or3(Get(raw, "notes"), Get(raw, "note"), Get(raw, "raw_output")), MkStr(<<>>))

normalize_analysis(raw) ==
    IF raw.t # "dict" THEN Returned(Degenerate(raw))
    ELSE LET c == Collected(raw)
             damage_type_out == DamageTypeOut(raw, c.dt)
             location_out == LocationOut(raw, c.loc)
             r == CostRaws(raw)
             cost_usd == parse_number_from_string(r.usd)
             cost_inr == parse_number_from_string(r.inr)
             cost_yen == parse_number_from_string(r.jpy)
         IN IF HasRaised(location_out) THEN location_out
            ELSE IF HasRaised(cost_usd) THEN cost_usd
            ELSE IF HasRaised(cost_inr) THEN cost_inr
            ELSE IF HasRaised(cost_yen) THEN cost_yen
            ELSE Returned(MkDict(
                   (Chars("damage_type") :> damage_type_out)
                   @@ (Chars("location") :> location_out.val)
                   @@ (Chars("cost_inr") :> cost_inr.val)
                   @@ (Chars("cost_usd") :> cost_usd.val)
                   @@ (Chars("cost_yen") :> cost_yen.val)
                   @@ (Chars("notes") :> NotesOf(raw))))

-----------------------------------------------------------------------------
(* Decode-repair: the tail of analyze_damage_bytes                         *)
(*                                                                         *)
(* json.loads over character sequences. Covered: whitespace, objects,      *)
(* arrays, strings without escapes, integers, null/true/false. The texts   *)
(* of this model hold no backslash and no fraction or exponent.            *)

Fail == [ok |-> FALSE]
Ok(x, n) == [ok |-> TRUE, val |-> x, next |-> n]

At(s, i) == IF i >= 1 /\ i <= Len(s) THEN s[i] ELSE ""

IsWs(c) == c \in {" ", "\t", "\n", "\r"}

RECURSIVE SkipWs(_, _)
SkipWs(s, i) == IF IsWs(At(s, i)) THEN SkipWs(s, i + 1) ELSE i

StartsWith(s, i, lit) == i + Len(lit) - 1 <= Len(s) /\ SubSeq(s, i, i + Len(lit) - 1) = lit

\* index of the first c at or after i, 0 when there is none
RECURSIVE FindChar(_, _, _)
FindChar(s, i, c) == IF i > Len(s) THEN 0
                     ELSE IF s[i] = c THEN i ELSE FindChar(s, i + 1, c)

\* index of the last c, 0 when there is none
RECURSIVE FindLast(_, _, _)
FindLast(s, i, c) == IF i < 1 THEN 0
                     ELSE IF s[i] = c THEN i ELSE FindLast(s, i - 1, c)

ParseString(s, i) ==
    LET j == FindChar(s, i + 1, "\"")
    IN IF At(s, i) # "\"" \/ j = 0 THEN Fail ELSE Ok(MkStr(SubSeq(s, i + 1, j - 1)), j + 1)

\* -?(0|[1-9][0-9]*)
ParseInt(s, i) ==
    LET k == IF At(s, i) = "-" THEN i + 1 ELSE i
        e == IF At(s, k) = "0" THEN k ELSE RunEnd(s, k)
        n == DigitsVal(SubSeq(s, k, e))
    IN IF ~IsDigit(At(s, k)) THEN Fail ELSE Ok(MkInt(IF k > i THEN -n ELSE n), e + 1)

RECURSIVE ParseValue(_, _)
RECURSIVE ParseMembers(_, _, _)
RECURSIVE ParseElements(_, _, _)
ParseValue(s, i) ==
    LET c == At(s, i)
    IN CASE c = "{" ->
              LET j == SkipWs(s, i + 1)
              IN IF At(s, j) = "}" THEN Ok(EmptyDict, j + 1) ELSE ParseMembers(s, j, <<>>)
         [] c = "[" ->
              LET j == SkipWs(s, i + 1)
              IN IF At(s, j) = "]" THEN Ok(MkList(<<>>), j + 1) ELSE ParseElements(s, j, <<>>)
         [] c = "\"" -> ParseString(s, i)
         [] c = "-" \/ IsDigit(c) -> ParseInt(s, i)
         [] c = "n" /\ StartsWith(s, i, <<"n", "u", "l", "l">>) -> Ok(None, i + 4)
         [] c = "t" /\ StartsWith(s, i, <<"t", "r", "u", "e">>) -> Ok(MkBool(TRUE), i + 4)
         [] c = "f" /\ StartsWith(s, i, <<"f", "a", "l", "s", "e">>) -> Ok(MkBool(FALSE), i + 5)
         [] OTHER -> Fail
\* the members of an object from the key at i on; a repeated key keeps its last value
ParseMembers(s, i, d) ==
    LET key == ParseString(s, i)
        j == SkipWs(s, key.next)
        v == ParseValue(s, SkipWs(s, j + 1))
        k == SkipWs(s, v.next)
        d2 == (key.val.v :> v.val) @@ d
    IN IF ~key.ok \/ At(s, j) # ":" THEN Fail
       ELSE IF ~v.ok THEN Fail
       ELSE IF At(s, k) = "," THEN ParseMembers(s, SkipWs(s, k + 1), d2)
       ELSE IF At(s, k) = "}" THEN Ok(MkDict(d2), k + 1)
       ELSE Fail
ParseElements(s, i, l) ==
    LET v == ParseValue(s, i)
        k == SkipWs(s, v.next)
    IN IF ~v.ok THEN Fail
       ELSE IF At(s, k) = "," THEN ParseElements(s, SkipWs(s, k + 1), Append(l, v.val))
       ELSE IF At(s, k) = "]" THEN Ok(MkList(Append(l, v.val)), k + 1)
       ELSE Fail

\* json.loads(s)
json_loads(s) ==
    LET r == ParseValue(s, SkipWs(s, 1))
    IN IF r.ok /\ SkipWs(s, r.next) = Len(s) + 1 THEN Returned(r.val)
       ELSE Raised("JSONDecodeError")

\* re.search(r"\{[\s\S]*\}", text): from the first "{" to the last "}"
BraceSpan(text) ==
    LET a == FindChar(text, 1, "{")
        b == FindLast(text, Len(text), "}")
    IN IF a > 0 /\ b > a THEN [found |-> TRUE, text |-> SubSeq(text, a, b)]
       ELSE [found |-> FALSE]

RawOutput(text) == MkDict(Chars("raw_output") :> MkStr(text))

\* mutant of decode_text: raw_output holds the matched span, not the text
decode_text_span(text) ==
    LET whole == json_loads(text)
        m == BraceSpan(text)
    IN IF HasReturned(whole) THEN whole.val
       ELSE IF m.found
            THEN (IF HasReturned(json_loads(m.text)) THEN json_loads(m.text).val
                  ELSE RawOutput(m.text))
            ELSE RawOutput(text)

\* what analyze_damage_bytes returns for the model's response.text
decode_text(text) ==
    LET whole == json_loads(text)
        m == BraceSpan(text)
    IN IF HasReturned(whole) THEN whole.val
       ELSE IF m.found
            THEN (IF HasReturned(json_loads(m.text)) THEN json_loads(m.text).val
                  ELSE RawOutput(text))
            ELSE RawOutput(text)

-----------------------------------------------------------------------------
(* /analyze and /history                                                   *)

Requests == 1..NumRequests

\* response.text of the external model, as the prompt asks for it and otherwise
ReplyCanonical ==
    <<"{", "\"", "d", "a", "m", "a", "g", "e", "s", "\"", ":", "[", "{",
      "\"", "p", "a", "r", "t", "\"", ":", "\"", "b", "\"", ",", "\"",
      "d", "a", "m", "a", "g", "e", "_", "t", "y", "p", "e", "\"", ":",
      "\"", "d", "\"", "}", "]", ",", "\"", "e", "s", "t", "i", "m", "a",
      "t", "e", "d", "_", "c", "o", "s", "t", "\"", ":", "{", "\"", "u",
      "s", "d", "\"", ":", "\"", "5", "0", "-", "1", "0", "0", "\"", ",",
      "\"", "i", "n", "r", "\"", ":", "\"", "1", ",", "2", "3", "4",
      "\"", ",", "\"", "j", "p", "y", "\"", ":", "\"", "7", "\"", "}",
      ",", "\"", "n", "o", "t", "e", "s", "\"", ":", "\"", "n", "\"",
      "}">>

ReplyWrapped ==
    <<"S", "u", "r", "e", "!", " ", "{", "\"", "d", "a", "m", "a", "g",
      "e", "s", "\"", ":", "[", "{", "\"", "p", "a", "r", "t", "\"", ":",
      "\"", "b", "\"", ",", "\"", "d", "a", "m", "a", "g", "e", "_", "t",
      "y", "p", "e", "\"", ":", "\"", "d", "\"", "}", ",", "{", "\"",
      "d", "a", "m", "a", "g", "e", "_", "t", "y", "p", "e", "\"", ":",
      "\"", "s", "\"", "}", "]", ",", "\"", "e", "s", "t", "i", "m", "a",
      "t", "e", "d", "_", "c", "o", "s", "t", "\"", ":", "{", "\"", "u",
      "s", "d", "\"", ":", "\"", "5", "0", "-", "1", "0", "0", "\"", "}",
      ",", "\"", "n", "o", "t", "e", "s", "\"", ":", "\"", "n", "\"",
      "}", " ", "T", "h", "a", "n", "k", "s", ".">>

ReplyProse ==
    <<"n", "o", " ", "j", "s", "o", "n", " ", "h", "e", "r", "e">>

ReplyBadPart ==
    <<"{", "\"", "d", "a", "m", "a", "g", "e", "s", "\"", ":", "[", "{",
      "\"", "p", "a", "r", "t", "\"", ":", "5", "}", "]", "}">>

ReplyBadTypes ==
    <<"{", "\"", "d", "a", "m", "a", "g", "e", "_", "t", "y", "p", "e",
      "\"", ":", "[", "5", ",", "6", "]", "}">>

\* the replies the requests of this model receive
Replies == {ReplyWrapped, ReplyProse, ReplyBadPart, ReplyBadTypes}

\* os.path.splitext(file.filename)[1] of each request's upload: odd requests
\* upload a .jpg file, even requests a file whose name has no extension
Extension(r) == IF r % 2 = 1 THEN Chars(".jpg") ELSE <<>>

NoName == [id |-> 0]
NoEntry == [id |-> 0]
NoResp == [analysis |-> None]

\* uuid.uuid4().hex: a value no earlier request drew (which one is immaterial:
\* the least unused of UUIDs stands for it)
UUIDs == 1..NumRequests
FreshIds(used) == {CHOOSE u \in UUIDs \ used : \A w \in UUIDs \ used : u <= w}
DrawnIds == {uname[q].id : q \in Requests} \ {0}

\* unique_name = f"{uuid.uuid4().hex}{ext}" with ext defaulting to ".png"
UniqueName(u, ext) == [id |-> u, ext |-> IF ext # <<>> THEN ext ELSE Chars(".png")]

\* mutant of UploadedImage: the reference is built from the upload's own
\* file name (id 0), not from unique_name
UploadedImageOfUpload(name) == [dir |-> Chars("/uploads/"), name |-> [id |-> 0, ext |-> name.ext]]

\* f"/uploads/{unique_name}"
UploadedImage(name) == [dir |-> Chars("/uploads/"), name |-> name]

\* str(e) of the caught exception: its message, kept whole
ErrorBody(e) == MkDict(Chars("error") :> MkStr(<<e>>))
IsErrorBody(a) == a.t = "dict" /\ DOMAIN a.v = {Chars("error")}
IsDataBody(a) == a.t = "dict" /\ ~IsErrorBody(a)

\* the except clause: the request returns {"analysis": {"error": str(e)}};
\* the handler's locals end with it
Caught(r, step, e) ==
    /\ pc' = [pc EXCEPT ![r] = "done"]
    /\ failedAt' = [failedAt EXCEPT ![r] = step]
    /\ resp' = [resp EXCEPT ![r] = [analysis |-> ErrorBody(e)]]
    /\ normalized' = [normalized EXCEPT ![r] = None]
    /\ entry' = [entry EXCEPT ![r] = NoEntry]

\* contents = await file.read(); open(save_path, "wb").write(contents)
\* outcome "none": the read raises or the file cannot be created;
\* "partial": the write raises with the file created; "ok"
SaveUpload(r) ==
    /\ pc[r] = "start"
    /\ \E outcome \in {"none", "partial", "ok"} :
         IF outcome = "none"
         THEN /\ Caught(r, "upload", "OSError")
              /\ UNCHANGED <<uname, blobs>>
         ELSE \E u \in FreshIds(DrawnIds) :
                LET name == UniqueName(u, Extension(r))
                IN /\ uname' = [uname EXCEPT ![r] = name]
                   /\ blobs' = (name :> r) @@ blobs
                   /\ IF outcome = "ok"
                      THEN /\ pc' = [pc EXCEPT ![r] = "saved"]
                           /\ UNCHANGED <<failedAt, resp, normalized, entry>>
                      ELSE Caught(r, "upload", "OSError")
    /\ UNCHANGED <<arg, ret, rows, now, hist>>

\* damage_str of line 182
DamageStr(dt) ==
    IF dt.t = "str" THEN Returned(dt)
    ELSE IF dt.t = "list" THEN Join(Chars(", "), dt.v)
    ELSE Returned(Lit("Unknown"))

\* Analysis(...) of lines 188-195, before the table assigns id and created_at
NewEntry(n, r) ==
    LET damage_str == DamageStr(Get(n, "damage_type"))
    IN IF HasRaised(damage_str) THEN damage_str
       ELSE Returned([image_path |-> n.v[Chars("uploadedImage")],
                      damage_type |-> damage_str.val,
                      location |-> Or(Get(n, "location"), MkStr(<<>>)),
                      cost_inr |-> Or(Get(n, "cost_inr"), MkFloat(0)),
                      cost_usd |-> Or(Get(n, "cost_usd"), MkFloat(0)),
                      cost_yen |-> Or(Get(n, "cost_yen"), MkFloat(0)),
                      req |-> r])

\* normalized["uploadedImage"] = f"/uploads/{unique_name}"
Attach(n, name) == MkDict((Chars("uploadedImage") :> UploadedImage(name)) @@ n.v)

\* what decode and normalization make of each reply
Assessments == {normalize_analysis(decode_text(text)) : text \in Replies}

\* the model call, the decode, the normalization and the row's fields
Assess(r) ==
    /\ pc[r] = "saved"
    /\ \/ Caught(r, "model", "GoogleAPIError")
       \/ \E n \in Assessments :
            IF HasRaised(n)
            THEN Caught(r, "normalize", n.exc)
            ELSE LET e == NewEntry(Attach(n.val, uname[r]), r)
                 IN IF HasRaised(e)
                    THEN Caught(r, "derive", e.exc)
                    ELSE /\ normalized' = [normalized EXCEPT ![r] = Attach(n.val, uname[r])]
                         /\ entry' = [entry EXCEPT ![r] = e.val]
                         /\ pc' = [pc EXCEPT ![r] = "built"]
                         /\ UNCHANGED <<failedAt, resp>>
    /\ UNCHANGED <<arg, ret, uname, blobs, rows, now, hist>>

\* db.commit() flushes: the column default datetime.utcnow is evaluated
Flush(r) ==
    /\ pc[r] = "built"
    /\ entry' = [entry EXCEPT ![r] = [created_at |-> now] @@ entry[r]]
    /\ pc' = [pc EXCEPT ![r] = "flushed"]
    /\ UNCHANGED <<arg, ret, uname, normalized, resp, failedAt, blobs, rows, now, hist>>

\* mutant of NextId: the largest id is given again
NextIdStale(table) ==
    IF table = {} THEN 1
    ELSE CHOOSE m \in {x.id : x \in table} : \A x \in table : x.id <= m

\* the INTEGER PRIMARY KEY of a new row: one more than the largest id
NextId(table) ==
    IF table = {} THEN 1
    ELSE (CHOOSE m \in {x.id : x \in table} : \A x \in table : x.id <= m) + 1

\* mutant of Committed: the row stays in the table when the commit fails
CommittedAnyway(table, e, ok) == table \cup {[id |-> NextId(table)] @@ e}

\* the table after the INSERT and COMMIT of e, or after their failure
Committed(table, e, ok) == IF ok THEN table \cup {[id |-> NextId(table)] @@ e} ELSE table

\* INSERT and COMMIT, together succeeding or failing
Commit(r) ==
    /\ pc[r] = "flushed"
    /\ \E ok \in BOOLEAN :
         /\ rows' = Committed(rows, entry[r], ok)
         /\ IF ok
            THEN /\ pc' = [pc EXCEPT ![r] = "committed"]
                 /\ UNCHANGED <<failedAt, resp, normalized, entry>>
            ELSE Caught(r, "commit", "OperationalError")
    /\ UNCHANGED <<arg, ret, uname, blobs, now, hist>>

\* db.refresh(entry); return {"analysis": normalized}
Respond(r) ==
    /\ pc[r] = "committed"
    /\ \/ Caught(r, "refresh", "OperationalError")
       \/ /\ pc' = [pc EXCEPT ![r] = "done"]
          /\ resp' = [resp EXCEPT ![r] = [analysis |-> normalized[r]]]
          /\ normalized' = [normalized EXCEPT ![r] = None]
          /\ entry' = [entry EXCEPT ![r] = NoEntry]
          /\ UNCHANGED failedAt
    /\ UNCHANGED <<arg, ret, uname, blobs, rows, now, hist>>

\* r.created_at.isoformat()
IsoFormat(t) == [iso |-> t]

\* one element of the /history body
HistoryItem(x) ==
    [id |-> x.id, image_path |-> x.image_path, damage_type |-> x.damage_type,
     location |-> x.location, cost_inr |-> x.cost_inr, cost_usd |-> x.cost_usd,
     cost_yen |-> x.cost_yen, created_at |-> IsoFormat(x.created_at)]

\* ORDER BY created_at DESC: rows of equal created_at come in any order
OrderedBy(s) == \A i, j \in 1..Len(s) : i < j => s[i].created_at >= s[j].created_at

Orderings(table) ==
    {s \in [1..Cardinality(table) -> table] :
        /\ \A i, j \in 1..Cardinality(table) : i # j => s[i] # s[j]
        /\ OrderedBy(s)}

get_history ==
    /\ \E s \in Orderings(rows) : hist' = [i \in 1..Len(s) |-> HistoryItem(s[i])]
    /\ UNCHANGED <<arg, ret, pc, uname, normalized, entry, resp, failedAt, blobs, rows, now>>

\* time passes. Readings of the clock matter only through their order, so the
\* clock is advanced only past a reading that a row was stamped with, and
\* only while a request has still to read it; it never steps back.
Stamped == {entry[q].created_at : q \in {x \in Requests : pc[x] = "flushed"}}
              \cup {x.created_at : x \in rows}
Tick ==
    /\ now \in Stamped
    /\ \E q \in Requests : pc[q] \in {"start", "saved", "built"}
    /\ now' = now + 1
    /\ UNCHANGED <<arg, ret, pc, uname, normalized, entry, resp, failedAt, blobs, rows, hist>>

WebInit ==
    /\ pc = [r \in Requests |-> "start"]
    /\ uname = [r \in Requests |-> NoName]
    /\ normalized = [r \in Requests |-> None]
    /\ entry = [r \in Requests |-> NoEntry]
    /\ resp = [r \in Requests |-> NoResp]
    /\ failedAt = [r \in Requests |-> ""]
    /\ blobs = <<>>
    /\ rows = {}
    /\ now = 0
    /\ hist = <<>>

Init == WebInit /\ arg = None /\ ret = NotRun

analyze(r) == SaveUpload(r) \/ Assess(r) \/ Flush(r) \/ Commit(r) \/ Respond(r)

Next == (\E r \in Requests : analyze(r)) \/ get_history \/ Tick

Spec == Init /\ [][Next]_vars

\* the requests alone, with no reader of the table
NextAnalyze == (\E r \in Requests : analyze(r)) \/ Tick

SpecAnalyze == Init /\ [][NextAnalyze]_vars

-----------------------------------------------------------------------------
(* The pure functions, each applied once to an input drawn from a bounded  *)
(* set                                                                     *)

\* all character sequences over chars of length at most n
UpTo(chars, n) == UNION {[1..k -> chars] : k \in 0..n}

Absent == [t |-> "absent"]
\* a dict with the key, or the empty function when the value is absent
Field(k, x) == IF x = Absent THEN <<>> ELSE (Chars(k) :> x)

ParseChars == {"1", "5", ".", ",", "-", "a"}
DocNumbers ==
    {<<"5", "0", "-", "1", "0", "0">>, <<"1", ",", "2", "3", "4">>, <<"a", "b", "c">>,
     <<"1", "0", "-", "2", "0", "-", "3", "0">>}

ParseInputs ==
    {None, BigInt, MkBool(TRUE), MkBool(FALSE), EmptyDict,
     MkList(<<MkInt(50), MkInt(100)>>)}
    \cup {MkInt(n) : n \in -MaxInt..MaxInt}
    \cup {MkStr(s) : s \in UpTo(ParseChars, MaxStrLen) \cup DocNumbers}

ParseInit == WebInit /\ arg \in ParseInputs /\ ret = NotRun

ParseCall ==
    /\ ret = NotRun
    /\ ret' = parse_number_from_string(arg)
    /\ UNCHANGED <<arg, pc, uname, normalized, entry, resp, failedAt, blobs, rows, now, hist>>

SpecParse == ParseInit /\ [][ParseCall]_vars

\* values of the part and damage_type of an entry of damages
PartPool == {Absent, MkStr(<<"b">>), MkInt(5)}
TypePool == {Absent, MkStr(<<"d">>), MkList(<<MkStr(<<"d">>)>>), MkInt(5)}
Entries ==
    {MkDict(Field("part", p) @@ Field("damage_type", t)) : p \in PartPool, t \in TypePool}
    \cup {MkStr(<<"x">>)}
DamageLists == UpTo(Entries, MaxDamages)

\* values of the top-level damage_type, damage, location and part
TopPool ==
    {Absent, None, MkStr(<<>>), MkStr(<<"d">>), MkInt(5), MkList(<<MkStr(<<"d">>)>>),
     MkList(<<MkStr(<<"d">>), MkStr(<<"s">>)>>), MkList(<<MkInt(5)>>),
     MkList(<<MkList(<<MkStr(<<"d">>)>>)>>), MkDict(<<"k">> :> MkInt(1))}

\* values of a cost field
CostPool ==
    {MkStr(<<"5", "0", "-", "1", "0", "0">>), MkStr(<<"7">>), MkStr(<<"a">>), MkInt(-5), BigInt}
EstCurrencies == {"usd", "USD", "dollars", "inr", "INR", "jpy", "JPY", "yen"}
FlatCurrencies == {"cost_usd", "costUSD", "usd", "cost_inr", "costINR", "inr",
                   "cost_yen", "costJPY", "jpy"}
EstPool ==
    {Absent, EmptyDict, MkStr(<<"x">>)}
    \cup {MkDict(Field(c, x)) : c \in EstCurrencies, x \in CostPool}
FlatPool == {<<>>} \cup {Field(c, x) : c \in FlatCurrencies, x \in CostPool}

NotePool == {Absent, MkStr(<<>>), MkStr(<<"n">>), MkInt(5)}

WithDamages ==
    {MkDict(Field("damages", MkList(ds)) @@ Field("damage_type", t) @@ Field("location", l)) :
        ds \in DamageLists,
        t \in {Absent, MkStr(<<"t">>), MkList(<<MkStr(<<"t">>)>>)},
        l \in {Absent, MkStr(<<"l">>)}}
    \cup {MkDict(Field("damage", MkList(<<d>>))) : d \in Entries}
WithSimpleFields ==
    {MkDict(Field(k1, a) @@ Field(k2, b)) :
        k1 \in {"damage_type", "damage"}, k2 \in {"location", "part"},
        a \in TopPool, b \in TopPool}
WithCosts ==
    {MkDict(Field(k, e) @@ f) :
        k \in {"estimated_cost", "estimatedCosts"}, e \in EstPool, f \in FlatPool}
WithNotes ==
    {MkDict(Field("notes", a) @@ Field("note", b) @@ Field("raw_output", c)) :
        a \in NotePool, b \in NotePool, c \in NotePool}
NotDicts == {None, MkInt(5), MkBool(TRUE), MkStr(<<"x">>), MkList(<<MkStr(<<"x">>), MkInt(5)>>)}

NormalizeInputs == WithDamages \cup WithSimpleFields \cup WithCosts \cup WithNotes \cup NotDicts

NormalizeInit == WebInit /\ arg \in NormalizeInputs /\ ret = NotRun

NormalizeCall ==
    /\ ret = NotRun
    /\ ret' = normalize_analysis(arg)
    /\ UNCHANGED <<arg, pc, uname, normalized, entry, resp, failedAt, blobs, rows, now, hist>>

SpecNormalize == NormalizeInit /\ [][NormalizeCall]_vars

TextChars == {"{", "}", "\"", ":", "a", "1", " "}
TextNotes ==
    <<"{", "\"", "n", "o", "t", "e", "s", "\"", ":", "\"", "x", "\"",
      "}">>
TextRecovered ==
    <<"S", "u", "r", "e", "!", " ", "{", "\"", "n", "o", "t", "e", "s",
      "\"", ":", "\"", "o", "k", "\"", "}", " ", "T", "h", "a", "n", "k",
      "s", ".">>
TextBrokenSpan ==
    <<"s", "e", "e", " ", "{", "\"", "n", "o", "t", "e", "s", "\"", ":",
      " ", "}", " ", "a", "n", "d", " ", "{", "}">>
TextTwoObjects ==
    <<"{", "\"", "a", "\"", ":", "1", "}", " ", "{", "\"", "b", "\"",
      ":", "2", "}">>
DocTexts == {ReplyCanonical, ReplyWrapped, ReplyProse, ReplyBadPart, ReplyBadTypes,
             TextNotes, TextRecovered, TextBrokenSpan, TextTwoObjects}

DecodeInputs == UpTo(TextChars, MaxTextLen) \cup DocTexts

DecodeInit == WebInit /\ arg \in DecodeInputs /\ ret = NotRun

\* the decode of a reply followed by its normalization, as analyze chains them
DecodeCall ==
    /\ ret = NotRun
    /\ ret' = [exc |-> "", raw |-> decode_text(arg), out |-> normalize_analysis(decode_text(arg))]
    /\ UNCHANGED <<arg, pc, uname, normalized, entry, resp, failedAt, blobs, rows, now, hist>>

SpecDecode == DecodeInit /\ [][DecodeCall]_vars

-----------------------------------------------------------------------------
(* Claims *)

Done(r) == pc[r] = "done"
RowsOf(r) == {x \in rows : x.req = r}
ContainedSteps == {"upload", "model", "normalize", "derive", "commit"}
OutKeys == {"damage_type", "location", "cost_inr", "cost_usd", "cost_yen", "notes"}

\* C1: a request that failed at the upload, the model call, the normalization,
\* the derivation of the row or the commit has returned (not raised) a body
\* {analysis: {error: ...}} and has added no row; the step at which it fails
\* leaves the table as it was.
C1_FailureContained ==
    /\ [](\A r \in Requests :
            failedAt[r] \in ContainedSteps =>
              /\ Done(r)
              /\ IsErrorBody(resp[r].analysis)
              /\ RowsOf(r) = {})
    /\ [][\A r \in Requests :
            (failedAt[r] = "" /\ failedAt'[r] \in ContainedSteps) => rows' = rows]_vars

\* C1 witness: one request failed in the normalization and another at the
\* commit, both answered with an error body.
C1_Witness ==
    \E r, q \in Requests :
        /\ failedAt[r] = "normalize" /\ Done(r) /\ IsErrorBody(resp[r].analysis)
        /\ failedAt[q] = "commit" /\ Done(q)

\* C2: _normalize_analysis returns for every input, never raises, and its
\* record holds damage_type, location, cost_inr, cost_usd, cost_yen and notes,
\* none of them null.
C2_NormalizerTotal ==
    ret # NotRun =>
        /\ HasReturned(ret)
        /\ \A k \in OutKeys : Chars(k) \in DOMAIN ret.val.v /\ ret.val.v[Chars(k)] # None

\* C3: of two rows of a /history body, the one persisted later (the larger
\* id) comes first.
C3_HistoryNewestFirst ==
    \A i, j \in 1..Len(hist) : hist[i].id < hist[j].id => j < i

\* C4: a request that returned analysis data has added exactly one row, ids
\* are unique, no step removes or changes a row or adds more than one, a
\* new row's id is fresh, and /history leaves the table as it is.
C4_RecordLifecycle ==
    /\ [](/\ \A r \in Requests :
               (Done(r) /\ IsDataBody(resp[r].analysis)) => Cardinality(RowsOf(r)) = 1
          /\ \A x, y \in rows : x.id = y.id => x = y)
    /\ [][/\ rows \subseteq rows'
          /\ Cardinality(rows') <= Cardinality(rows) + 1
          /\ \A x \in rows' \ rows : x.id \notin {y.id : y \in rows}
          /\ (hist' # hist => rows' = rows)]_vars

\* C4 witness: two requests returned data, the table holds their two rows and
\* /history has listed both.
C4_Witness ==
    /\ \A r \in {1, 2} : Done(r) /\ IsDataBody(resp[r].analysis)
    /\ Cardinality(rows) >= 2
    /\ Len(hist) >= 2

\* the value the numeric extractor is said to return for a string
ClaimedForString(s) ==
    LET m == FindAll(RemoveCommas(s))
    IN IF Len(m) = 0 THEN 0
       ELSE IF Len(m) = 1 THEN MatchFloat(m[1])
       ELSE (MatchFloat(m[1]) + MatchFloat(m[2])) \div 2

\* C5: _parse_number_from_string never raises and returns a non-negative
\* number: 0 for null, the absolute value of a number, and for a string 0,
\* the single match or the mean of the first two matches ("50-100" gives 75,
\* "1,234" gives 1234, "10-20-30" gives 15).
C5_ExtractorTotal ==
    ret # NotRun =>
        /\ HasReturned(ret)
        /\ ret.val.t = "float" /\ ret.val.v >= 0
        /\ (arg = None => ret.val.v = 0)
        /\ (arg.t = "int" => ret.val.v = Abs(arg.v) * Scale)
        /\ (arg.t = "str" => ret.val.v = ClaimedForString(arg.v))
        /\ (arg = MkStr(<<"5", "0", "-", "1", "0", "0">>) => ret.val.v = 75 * Scale)
        /\ (arg = MkStr(<<"1", ",", "2", "3", "4">>) => ret.val.v = 1234 * Scale)
        /\ (arg = MkStr(<<"1", "0", "-", "2", "0", "-", "3", "0">>) => ret.val.v = 15 * Scale)

HasNoEstimate(raw) ==
    Chars("estimated_cost") \notin DOMAIN raw.v /\ Chars("estimatedCosts") \notin DOMAIN raw.v

\* the extraction of a currency from the top-level keys
FlatCost(raw, c) ==
    parse_number_from_string(
        CASE c = "usd" -> Or3(Get(raw, "cost_usd"), Get(raw, "costUSD"), Get(raw, "usd"))
          [] c = "inr" -> Or3(Get(raw, "cost_inr"), Get(raw, "costINR"), Get(raw, "inr"))
          [] c = "jpy" -> Or3(Get(raw, "cost_yen"), Get(raw, "costJPY"), Get(raw, "jpy")))

\* C6: for a dict with neither estimated_cost nor estimatedCosts, each cost
\* is extracted from the top-level keys of its currency.
C6_FlatCostFallback ==
    (ret # NotRun /\ arg.t = "dict" /\ HasNoEstimate(arg) /\ HasReturned(ret)) =>
        \A c \in {"usd", "inr", "jpy"} :
            HasReturned(FlatCost(arg, c)) =>
                ret.val.v[Chars(IF c = "jpy" THEN "cost_yen" ELSE IF c = "usd" THEN "cost_usd" ELSE "cost_inr")]
                    = FlatCost(arg, c).val

NotJson(text) == HasRaised(json_loads(text))
NoUsableSpan(text) == ~BraceSpan(text).found \/ NotJson(BraceSpan(text).text)

\* C7: for a text that is not JSON and whose span from the first "{" to the
\* last "}" is absent or not JSON, the decode returns {raw_output: text} and
\* the normalizer makes of it damage_type "Unknown", location "", the three
\* costs 0 and notes equal to the text.
C7_DecodeTotalFailure ==
    (ret # NotRun /\ NotJson(arg) /\ NoUsableSpan(arg)) =>
        /\ ret.raw = RawOutput(arg)
        /\ HasReturned(ret.out)
        /\ ret.out.val.v[Chars("damage_type")] = Lit("Unknown")
        /\ ret.out.val.v[Chars("location")] = MkStr(<<>>)
        /\ \A k \in {"cost_inr", "cost_usd", "cost_yen"} : ret.out.val.v[Chars(k)] = MkFloat(0)
        /\ ret.out.val.v[Chars("notes")] = MkStr(arg)

\* C7 witness: a text with a brace span that is not JSON has been decoded to
\* {raw_output: text} and normalized.
C7_Witness ==
    /\ ret # NotRun
    /\ NotJson(arg) /\ BraceSpan(arg).found /\ NotJson(BraceSpan(arg).text)
    /\ ret.raw = RawOutput(arg)
    /\ ret.out.val.v[Chars("notes")] = MkStr(arg)

IsSingleEntry(raw) ==
    /\ DOMAIN raw.v = {Chars("damages")}
    /\ raw.v[Chars("damages")].t = "list"
    /\ Len(raw.v[Chars("damages")].v) = 1
    /\ LET d == raw.v[Chars("damages")].v[1]
       IN /\ d.t = "dict"
          /\ DOMAIN d.v = {Chars("part"), Chars("damage_type")}
          /\ \A k \in DOMAIN d.v : d.v[k].t = "str" /\ d.v[k].v # <<>>

\* C8: for a dict the damage_type output is a bare string when one label was
\* collected ("t (p)" for the one entry {part: p, damage_type: t}), the list
\* of the labels in order when two or more were, and never a one-element
\* list.
C8_DamageTypeCollapse ==
    (ret # NotRun /\ arg.t = "dict" /\ HasReturned(ret)) =>
        LET labels == Collected(arg).dt
            out == ret.val.v[Chars("damage_type")]
        IN /\ Len(labels) = 1 => out.t = "str"
           /\ Len(labels) >= 2 => out = MkList(labels)
           /\ ~(out.t = "list" /\ Len(out.v) = 1)
           /\ IsSingleEntry(arg) =>
                LET d == arg.v[Chars("damages")].v[1].v
                IN out = MkStr(d[Chars("damage_type")].v \o Chars(" (")
                               \o d[Chars("part")].v \o Chars(")"))

\* damage_type of a response as text: the labels of a list joined with ", "
JoinedType(x) == IF x.t = "list" THEN Join(Chars(", "), x.v).val ELSE x

\* the /history item carries every field of the analysis a
Carries(item, a) ==
    /\ item.damage_type = JoinedType(Get(a, "damage_type"))
    /\ item.location = Get(a, "location")
    /\ item.cost_inr = Get(a, "cost_inr")
    /\ item.cost_usd = Get(a, "cost_usd")
    /\ item.cost_yen = Get(a, "cost_yen")
    /\ item.image_path = Get(a, "uploadedImage")
    /\ "notes" \in DOMAIN item
    /\ item.notes = Get(a, "notes")

\* C9: after a request returned the analysis A, /history lists an item with
\* A's damage_type (joined), location, costs, notes and image reference.
C9_RoundTrip ==
    \A r \in Requests :
        (Done(r) /\ IsDataBody(resp[r].analysis)) =>
            \E x \in rows : Carries(HistoryItem(x), resp[r].analysis)

InFlight(r) == pc[r] \in {"saved", "built", "flushed", "committed"}

\* C10: every row's image_path names a file of the upload directory that the
\* row's own request wrote, a request has written its file before it calls
\* the model, and no two rows share an image_path.
C10_BlobOfRecord ==
    /\ \A x \in rows :
          /\ x.image_path.dir = Chars("/uploads/")
          /\ x.image_path.name \in DOMAIN blobs
          /\ blobs[x.image_path.name] = x.req
    /\ \A r \in Requests : InFlight(r) => uname[r] \in DOMAIN blobs /\ blobs[uname[r]] = r
    /\ \A x, y \in rows : x.image_path = y.image_path => x = y

\* C10 witness: a row with its file, beside a file that a finished request
\* left without a row.
C10_Witness ==
    /\ rows # {}
    /\ \E n \in DOMAIN blobs :
          /\ Done(blobs[n])
          /\ \A x \in rows : x.image_path.name # n

====
